---- MODULE Spec2Model ----
(***************************************************************************)
(* soundDB Accessor (src/soundDB/accessor.py): the lazy transform chain,   *)
(* the per-record parse layer, the group stage and combine().              *)
(*                                                                         *)
(* One Accessor object is modelled.  Its attributes are the variables      *)
(* _sort, _chain, _n, _filters and _progbar.  A run is the generator       *)
(* chain returned by __iter__; the consumer drives it with next() and      *)
(* close().  Python runs the whole cascade of one next() call without      *)
(* interruption, so one next() is one action.                              *)
(***************************************************************************)
EXTENDS Naturals, Sequences, FiniteSets

(* ---------------------------------------------------------------- bounds *)
\* number of records (iyore Entries) in the dataset behind the endpoint
MaxRecs == 3
\* longest list of stages the builders are followed to
MaxChain == 2

Recs == 1..MaxRecs

(* ------------------------------------------------------- the environment *)
\* Fields of the Entries.  In catalogue order the sites alternate (a site
\* recurs non-adjacently) and the years fall.
site(r) == IF r % 2 = 1 THEN 1 ELSE 2
year(r) == MaxRecs + 1 - r

\* What the injected parse() and the parsed Structure do for one Entry:
\*   ok        parse returns a Structure on which every stage operation works
\*   parseErr  parse raises an ordinary exception
\*   opErr, p  parse works; the operation of the stage at position p raises
Fates ==
    {[f |-> "ok", p |-> 0], [f |-> "parseErr", p |-> 0]}
        \cup {[f |-> "opErr", p |-> p] : p \in 1..MaxChain}

\* What kind of Structure the parser of this Accessor subclass returns:
\*   frame       a pandas object; pd.concat of several works
\*   scalar      a non-pandas value; pd.concat of several raises TypeError
\*   misaligned  a pandas object; pd.concat of several raises ValueError
Kinds == {"frame", "scalar", "misaligned"}

\* sort arguments of the endpoint: None, field names, and a name that is
\* no field of the endpoint
SortArgs == {"None", "site", "year", "callable", "bogus"}
\* arguments of group(): a field name, a callable that accepts anything
\* (an Entry or the key of an earlier group) and returns one and the same
\* key, a name that is no field, no argument at all, several arguments not
\* all strings, one argument that is neither a string nor callable
GroupArgs == {"site", "callable", "bogus", "empty", "mixed", "notcallable"}
\* and a callable that tells an Entry from a key: for an Entry it returns
\* the year, the key of an earlier group it returns as it is
KeyGroupArgs == GroupArgs \cup {"yearOrKey"}
OpKinds == {"getattr", "getitem", "call"}

VARIABLES
    fate,       \* Recs -> Fates: behaviour of parse and of the Structures
    kind,       \* the kind of Structure the parser returns
    _sort,      \* self._sort
    _chain,     \* self._chain: sequence of stages
    _n,         \* self._n: 0 is None
    _filters,   \* self._filters
    _progbar,   \* self._progbar: the entries wrapped at the last __iter__
    run,        \* the generator chain the consumer holds, or NoRun
    other,      \* a second generator chain of the same Accessor that the
                \* consumer holds next to it, or NoRun
    ret,        \* the last call if it was combine(): its arguments, what the
                \* run delivered to it, where it ended and what it returned,
                \* and whether the call before it was combine() as well
    err         \* the exception the last call let escape to its caller

vars == <<fate, kind, _sort, _chain, _n, _filters, _progbar, run, other, ret, err>>

(* ----------------------------------------------------------------- items *)
\* The first component of a pair: an Entry, or a group key.
Entry(r) == [t |-> "entry", r |-> r, s |-> 0, y |-> 0]
Key(s, y) == [t |-> "key", r |-> 0, s |-> s, y |-> y]

\* A Structure: the records whose data it holds (in order), the positions
\* of the stages applied to it, and for a tuple of Structures its parts.
Structure(tag, m, ops, parts) == [tag |-> tag, m |-> m, ops |-> ops, parts |-> parts]

\* self.parse(entry): the Structure of one Entry
parse(r) == Structure(kind, <<r>>, <<>>, <<>>)
parseRaises(r) == fate[r].f = "parseErr"

RECURSIVE SeqToSet(_)
SeqToSet(s) == IF s = <<>> THEN {} ELSE {Head(s)} \cup SeqToSet(Tail(s))

RECURSIVE Flatten(_)
Flatten(ss) == IF ss = <<>> THEN <<>> ELSE Head(ss) \o Flatten(Tail(ss))

(* ------------------------------------------------------- Record Source *)
\* the value an Entry is sorted by; "None" keeps the catalogue order
SortRank(k, r) ==
    CASE k = "site" -> site(r)
      [] k \in {"year", "yearOrKey"} -> year(r)
      [] OTHER -> 0

\* stable sort of the catalogue by the sort key
RECURSIVE SortedUpTo(_, _)
SortedUpTo(k, i) ==
    IF i = 0 THEN <<>>
    ELSE LET before == SortedUpTo(k, i - 1)
             \* i goes after every record of equal rank: the sort is stable
             le == {j \in 1..Len(before) : SortRank(k, before[j]) <= SortRank(k, i)}
         IN  SubSeq(before, 1, Cardinality(le)) \o <<i>>
                 \o SubSeq(before, Cardinality(le) + 1, Len(before))

\* (variant of endpointRaises: any sort key is taken)
endpointRaises_never(sort) == FALSE

\* self._endpoint(sort= self._sort, n= self._n, **self._filters), as a list.
\* A sort key that is no field of the endpoint raises.
endpointRaises(sort) == sort = "bogus"
endpoint(sort, n) ==
    LET all == SortedUpTo(sort, MaxRecs)
    IN  IF n = 0 \/ n >= Len(all) THEN all ELSE SubSeq(all, 1, n)

(* ---------------------------------------------------------------- stages *)
Stage(k, key) == [kind |-> k, key |-> key]

NoItem == [e |-> Key(0, 0), d |-> Structure("none", <<>>, <<>>, <<>>)]
Item(e, d) == [e |-> e, d |-> d]

\* the report written to the progress bar when a layer swallows an exception
Report(layer, e) == [layer |-> layer, e |-> e]

\* (variants of except_clause: the bare except missing; the GeneratorExit
\* clause missing)
except_clause_no_bare(exc) == "raise"
except_clause_no_exit(exc) == "log"

\* The handler an exception raised inside the try block of iterate,
\* do_getattr, do_getitem or do_call reaches: the GeneratorExit clause comes
\* first and re-raises, the bare except logs and lets the loop go on.
except_clause(exc) == IF exc = "GeneratorExit" THEN "raise" ELSE "log"

\* getattr(data, attr), data.__getitem__(*index), data(*args, **kwargs)
opRaises(p, d) == \E i \in 1..Len(d.m) : fate[d.m[i]] = [f |-> "opErr", p |-> p]
\* (variant of applyOp: the operation takes effect below those applied before)
applyOp_first(p, d) == [d EXCEPT !.ops = <<p>> \o @]
applyOp(p, d) == [d EXCEPT !.ops = Append(@, p)]

\* groupFunc(entryAndData[0]): attrgetter / tuple of getattr on an Entry.
\* Only an Entry has the fields; the key of an earlier group has not.
groupFuncRaises(key, e) == key = "bogus" \/ (key = "site" /\ e.t # "entry")
groupFunc(key, e) ==
    CASE key = "site" -> Key(site(e.r), 0)
      [] key = "yearOrKey" -> IF e.t = "entry" THEN Key(0, year(e.r)) ELSE e
      [] OTHER -> Key(0, 0)

\* pd.concat(datas): "" when it works, else the exception it raises
pd_concat_exc(datas) ==
    IF \E i \in 1..Len(datas) : datas[i].tag \in {"scalar", "tuple", "list"}
    THEN "TypeError"
    ELSE IF \E i \in 1..Len(datas) : datas[i].tag = "misaligned"
    THEN "ValueError"
    ELSE ""
pd_concat(datas) ==
    Structure("frame", Flatten([i \in 1..Len(datas) |-> datas[i].m]), datas[1].ops, <<>>)

\* (variant of concat_maybe: only the first Structure of the run is kept)
concat_maybe_first(datas) == [exc |-> "", val |-> datas[1]]

\* concat_maybe(datas): [exc, val]; exc is the exception that escapes it
concat_maybe(datas) ==
    IF Len(datas) = 1 THEN [exc |-> "", val |-> datas[1]]
    ELSE IF pd_concat_exc(datas) = "" THEN [exc |-> "", val |-> pd_concat(datas)]
    ELSE IF pd_concat_exc(datas) = "TypeError"
    THEN [exc |-> "",
          val |-> Structure("tuple", Flatten([i \in 1..Len(datas) |-> datas[i].m]),
                            <<>>, datas)]
    ELSE [exc |-> pd_concat_exc(datas), val |-> NoItem.d]

\* (variant of prepareState_calls: a State of its own for every parse call)
prepareState_per_record(rs) == [rs EXCEPT !.state = 0]

\* the State a parse call is given: the one of the run, prepareState is not
\* called again
prepareState_calls(rs) == rs

(* ------------------------------------------------------ generator layers *)
\* A run: the generators built by one __iter__ call.
\*   entries  the list this __iter__ fetched
\*   started  whether the generators have begun to execute
\*   src, pos the list iterate() walks (bound when it begins: it reads
\*            self._progbar then) and the index of the next Entry
\*   chain    the stages composed at __iter__
\*   held     per group stage: the pair itertools.groupby has read ahead
\*   live     the lowest layer that has not finished
\*   status   "active", "done" (StopIteration), "closed", "raised"
\*   out, log what was delivered to the consumer and what was reported
\*   gin, gout the pairs each group stage has read and has yielded
\*   state    the State object prepareState returned for this run: the number
\*            of parse calls that have had it in their hands (a parser may
\*            write to it)
\*   work     the calls made for this run, in order (see Event)
NoRun ==
    [status |-> "none", started |-> FALSE, entries |-> <<>>, src |-> <<>>, pos |-> 1,
     chain |-> <<>>, held |-> <<>>, live |-> 0, out |-> <<>>, log |-> <<>>,
     gin |-> <<>>, gout |-> <<>>, exc |-> "", state |-> 0, work |-> <<>>]

\* One call made for a run:
\*   "prepareState", "fetch"  by __iter__ (fetch: self._endpoint(...) and list())
\*   "next", "close"          by the consumer
\*   "parse"                  self.parse(e, state= st) by iterate()
\*   "op"                     the operation of stage k on the data of e
\*   "deliver"                the pair of e handed to the consumer
Event(ev, k, e, st) == [ev |-> ev, k |-> k, e |-> e, st |-> st]
Did(rs, ev, k, e, st) == [rs EXCEPT !.work = Append(@, Event(ev, k, e, st))]

Yield(it, rs) == [res |-> "item", it |-> it, exc |-> "", rs |-> rs]
Stop(k, rs) == [res |-> "stop", it |-> NoItem, exc |-> "", rs |-> [rs EXCEPT !.live = k + 1]]
Raise(exc, rs) == [res |-> "raise", it |-> NoItem, exc |-> exc, rs |-> rs]

\* (variant of iterate: the position moves on twice per delivered pair)
RECURSIVE iterate_skipping(_)
iterate_skipping(rs) ==
    IF rs.pos > Len(rs.src) THEN Stop(0, rs)
    ELSE LET r == rs.src[rs.pos]
         IN  IF parseRaises(r)
             THEN iterate_skipping([rs EXCEPT !.pos = @ + 1,
                                              !.log = Append(@, Report(0, Entry(r)))])
             ELSE Yield(Item(Entry(r), parse(r)), [rs EXCEPT !.pos = @ + 2])

\* (variant of iterate: the Entry after the one yielded is parsed in advance)
RECURSIVE iterate_readahead(_)
iterate_readahead(rs) ==
    IF rs.pos > Len(rs.src) THEN Stop(0, rs)
    ELSE LET r == rs.src[rs.pos]
             rs1 == [Did(rs, "parse", 0, Entry(r), rs.state) EXCEPT
                        !.pos = @ + 1, !.state = @ + 1]
             rs2 == IF rs1.pos > Len(rs.src) THEN rs1
                    ELSE Did(rs1, "parse", 0, Entry(rs.src[rs1.pos]), rs1.state)
         IN  IF parseRaises(r)
             THEN iterate_readahead([rs1 EXCEPT !.log = Append(@, Report(0, Entry(r)))])
             ELSE Yield(Item(Entry(r), parse(r)), rs2)

\* iterate(): for entry in self._progbar: try: parse, yield
RECURSIVE iterate(_)
iterate(rs) ==
    IF rs.pos > Len(rs.src) THEN Stop(0, rs)
    ELSE LET r == rs.src[rs.pos]
             st == prepareState_calls(rs).state
             rs1 == [Did(rs, "parse", 0, Entry(r), st) EXCEPT !.pos = @ + 1, !.state = st + 1]
         IN  IF parseRaises(r)
             THEN IF except_clause("Exception") = "log"
                  THEN iterate([rs1 EXCEPT !.log = Append(@, Report(0, Entry(r)))])
                  ELSE Raise("Exception", rs1)
             ELSE Yield(Item(Entry(r), parse(r)), rs1)

RECURSIVE PullAt(_, _), do_stage(_, _), do_group(_, _), groupby_run(_, _, _, _)

\* (variant of groupby_run: a full group-by, the run also takes the equal
\* keys that follow a different key)
RECURSIVE groupby_all(_, _, _, _)
groupby_all(k, key, datas, rs) ==
    LET up == PullAt(k - 1, rs)
        rs1 == [up.rs EXCEPT !.gin = Append(@, [p |-> k, it |-> up.it])]
    IN  IF up.res = "stop" THEN [res |-> "ok", datas |-> datas, exc |-> "", rs |-> up.rs]
        ELSE IF up.res = "raise" THEN [res |-> "raise", datas |-> datas, exc |-> up.exc, rs |-> up.rs]
        ELSE IF groupFuncRaises(rs.chain[k].key, up.it.e)
        THEN [res |-> "raise", datas |-> datas, exc |-> "AttributeError", rs |-> rs1]
        ELSE IF groupFunc(rs.chain[k].key, up.it.e) = key
        THEN groupby_all(k, key, Append(datas, up.it.d), rs1)
        ELSE groupby_all(k, key, datas, rs1)

\* (variant of do_stage: the operation is applied outside the try block and
\* a pair whose operation raises is passed on as it came)
do_stage_unguarded(k, rs) ==
    LET up == PullAt(k - 1, rs)
    IN  IF up.res = "stop" THEN Stop(k, up.rs)
        ELSE IF up.res = "raise" THEN up
        ELSE IF opRaises(k, up.it.d) THEN Yield(up.it, up.rs)
        ELSE Yield(Item(up.it.e, applyOp(k, up.it.d)), up.rs)

\* do_getattr / do_getitem / do_call at position k: for entry, data in
\* iterator: try: yield entry, op(data)
do_stage(k, rs) ==
    LET up == PullAt(k - 1, rs)
        rs1 == Did(up.rs, "op", k, up.it.e, 0)
    IN  IF up.res = "stop" THEN Stop(k, up.rs)
        ELSE IF up.res = "raise" THEN up
        ELSE IF opRaises(k, up.it.d)
        THEN IF except_clause("Exception") = "log"
             THEN do_stage(k, [rs1 EXCEPT !.log = Append(@, Report(k, up.it.e))])
             ELSE Raise("Exception", rs1)
        ELSE Yield(Item(up.it.e, applyOp(k, up.it.d)), rs1)

\* The rest of one group of itertools.groupby: read upstream while the key
\* stays the same; the first pair with another key is held for the next group.
groupby_run(k, key, datas, rs) ==
    LET up == PullAt(k - 1, rs)
        rs1 == [up.rs EXCEPT !.gin = Append(@, [p |-> k, it |-> up.it])]
    IN  IF up.res = "stop" THEN [res |-> "ok", datas |-> datas, exc |-> "", rs |-> up.rs]
        ELSE IF up.res = "raise" THEN [res |-> "raise", datas |-> datas, exc |-> up.exc, rs |-> up.rs]
        ELSE IF groupFuncRaises(rs.chain[k].key, up.it.e)
        THEN [res |-> "raise", datas |-> datas, exc |-> "AttributeError", rs |-> rs1]
        ELSE IF groupFunc(rs.chain[k].key, up.it.e) = key
        THEN groupby_run(k, key, Append(datas, up.it.d), rs1)
        ELSE [res |-> "ok", datas |-> datas, exc |-> "",
              rs |-> [rs1 EXCEPT !.held[k] = <<up.it>>]]

\* do_group at position k: for key, subiter in itertools.groupby(...):
\* yield key, concat_maybe(data for entry, data in subiter)
do_group(k, rs) ==
    LET first == IF rs.held[k] # <<>>
                 THEN Yield(rs.held[k][1], [rs EXCEPT !.held[k] = <<>>])
                 ELSE LET up == PullAt(k - 1, rs)
                      IN  IF up.res = "item"
                          THEN [up EXCEPT !.rs.gin = Append(@, [p |-> k, it |-> up.it])]
                          ELSE up
    IN  IF first.res = "stop" THEN Stop(k, first.rs)
        ELSE IF first.res = "raise" THEN first
        ELSE IF groupFuncRaises(rs.chain[k].key, first.it.e)
        THEN Raise("AttributeError", first.rs)
        ELSE LET key == groupFunc(rs.chain[k].key, first.it.e)
                 g == groupby_run(k, key, <<first.it.d>>, first.rs)
                 c == concat_maybe(g.datas)
             IN  IF g.res = "raise" THEN Raise(g.exc, g.rs)
                 ELSE IF c.exc # "" THEN Raise(c.exc, g.rs)
                 ELSE Yield(Item(key, c.val),
                            [g.rs EXCEPT !.gout = Append(@, [p |-> k, it |-> Item(key, c.val)])])

\* next() on the generator of layer k; layer 0 is iterate()
PullAt(k, rs) ==
    IF k = 0 THEN iterate(rs)
    ELSE IF rs.chain[k].kind = "group" THEN do_group(k, rs)
    ELSE do_stage(k, rs)

(* --------------------------------------------------------------- actions *)
\* what combine() returned: nothing yet (map: the results per identity;
\* res: the mapping handed back by the final merge on its own; key, label:
\* the argument and the value of Accessor.ID called on its own)
NoRet ==
    [at |-> "", how |-> "unset", map |-> <<>>, val |-> NoItem.d,
     func |-> [f |-> "", badRec |-> 0], idArg |-> "", out |-> <<>>, log |-> <<>>,
     failed |-> {}, again |-> FALSE, res |-> <<>>, key |-> Key(0, 0), label |-> <<>>]

\* sort and n given to __init__: no sort, a sort field, a limit
InitArgs ==
    {[sort |-> "None", n |-> 0], [sort |-> "year", n |-> 0],
     [sort |-> "None", n |-> MaxRecs - 1]}

\* The datasets followed: any set of records may be faulty in one and the
\* same way, and any two records may be faulty in two different ways.
FateProfile(f) ==
    LET faulty == {r \in Recs : f[r].f # "ok"}
    IN  Cardinality({f[r] : r \in faulty}) <= 1 \/ Cardinality(faulty) <= 2

\* Accessor.__init__
Init ==
    /\ fate \in [Recs -> Fates]
    /\ kind \in Kinds
    /\ FateProfile(fate)
    /\ kind = "frame" \/ \A r \in Recs : fate[r].f = "ok"
    /\ \E a \in InitArgs : _sort = a.sort /\ _n = a.n
    /\ _filters = "all"
    /\ _chain = <<>>
    /\ _progbar = <<>>
    /\ run = NoRun
    /\ other = NoRun
    /\ ret = NoRet
    /\ err = ""

\* self._chain.append(do); return self
append(stage) == _chain' = Append(_chain, stage)

\* Accessor.__getattr__(attr)
__getattr__ ==
    /\ Len(_chain) < MaxChain
    /\ append(Stage("getattr", ""))
    /\ err' = ""
    /\ ret' = NoRet
    /\ UNCHANGED <<other, fate, kind, _sort, _n, _filters, _progbar, run>>

\* Accessor.__getitem__(*index)
__getitem__ ==
    /\ Len(_chain) < MaxChain
    /\ append(Stage("getitem", ""))
    /\ err' = ""
    /\ ret' = NoRet
    /\ UNCHANGED <<other, fate, kind, _sort, _n, _filters, _progbar, run>>

\* Accessor.__call__(*args, **kwargs)
__call__ ==
    /\ Len(_chain) < MaxChain
    /\ append(Stage("call", ""))
    /\ err' = ""
    /\ ret' = NoRet
    /\ UNCHANGED <<other, fate, kind, _sort, _n, _filters, _progbar, run>>

\* whether group(*groups) raises for its arguments: TypeError for no group
\* and for several groups not all strings, ValueError for a single group
\* that is neither a string nor callable
groupArgError(arg) == IF arg \in {"empty", "mixed", "notcallable"} THEN "ArgumentError" ELSE ""

\* (variant of group: self._sort is left as it was)
group_keeps_sort(arg) ==
    /\ Len(_chain) < MaxChain
    /\ IF groupArgError(arg) # ""
       THEN /\ err' = groupArgError(arg)
            /\ UNCHANGED _chain
       ELSE /\ append(Stage("group", arg))
            /\ err' = ""
    /\ ret' = NoRet
    /\ UNCHANGED <<other, fate, kind, _sort, _n, _filters, _progbar, run>>

\* (variant of group: self._sort is set before the arguments are checked)
group_sort_first(arg) ==
    /\ Len(_chain) < MaxChain
    /\ _sort' = arg
    /\ IF groupArgError(arg) # ""
       THEN /\ err' = groupArgError(arg)
            /\ UNCHANGED _chain
       ELSE /\ append(Stage("group", arg))
            /\ err' = ""
    /\ ret' = NoRet
    /\ UNCHANGED <<other, fate, kind, _n, _filters, _progbar, run>>

\* Accessor.group(*groups)
group(arg) ==
    /\ Len(_chain) < MaxChain
    /\ IF groupArgError(arg) # ""
       THEN /\ err' = groupArgError(arg)
            /\ UNCHANGED <<_sort, _chain>>
       ELSE /\ _sort' = arg
            /\ append(Stage("group", arg))
            /\ err' = ""
    /\ ret' = NoRet
    /\ UNCHANGED <<other, fate, kind, _n, _filters, _progbar, run>>

\* (variant of NewRun: __iter__ parses the first Entry itself)
NewRun_eager(entries, chain) ==
    [NoRun EXCEPT !.status = "active", !.entries = entries, !.chain = chain,
                  !.held = [i \in 1..Len(chain) |-> <<>>],
                  !.work = <<Event("prepareState", 0, NoItem.e, 0),
                             Event("fetch", 0, NoItem.e, 0),
                             Event("parse", 0, NoItem.e, 0)>>]

\* the generators __iter__ returns for the list `entries`
NewRun(entries, chain) ==
    [NoRun EXCEPT !.status = "active", !.entries = entries, !.chain = chain,
                  !.held = [i \in 1..Len(chain) |-> <<>>],
                  !.work = <<Event("prepareState", 0, NoItem.e, 0),
                             Event("fetch", 0, NoItem.e, 0)>>]

\* Accessor.__iter__: prepareState, fetch and materialize the entries, wrap
\* them in the progress bar, compose the generators
__iter__ ==
    /\ IF endpointRaises(_sort)
       THEN /\ err' = "SetupError"
            /\ UNCHANGED <<_progbar, run>>
       ELSE /\ _progbar' = endpoint(_sort, _n)
            /\ run' = NewRun(endpoint(_sort, _n), _chain)
            /\ err' = ""
    /\ ret' = NoRet
    /\ UNCHANGED <<other, fate, kind, _sort, _chain, _n, _filters>>

\* the generators as they begin to execute: iterate() reads self._progbar
Started(rs, progbar) ==
    IF rs.started THEN rs ELSE [rs EXCEPT !.started = TRUE, !.src = progbar]

\* the run after one next() of the consumer
Pulled(rs, progbar) ==
    LET up == PullAt(Len(rs.chain), Did(Started(rs, progbar), "next", 0, NoItem.e, 0))
    IN  CASE up.res = "item" ->
                [Did(up.rs, "deliver", 0, up.it.e, 0) EXCEPT !.out = Append(@, up.it)]
          [] up.res = "stop" -> [up.rs EXCEPT !.status = "done"]
          [] OTHER -> [up.rs EXCEPT !.status = "raised", !.exc = up.exc]

\* next(run) by the consumer
next ==
    /\ run.status = "active"
    /\ run' = Pulled(run, _progbar)
    /\ err' = run'.exc
    /\ ret' = NoRet
    /\ UNCHANGED <<other, fate, kind, _sort, _chain, _n, _filters, _progbar>>

\* The layers suspended at a yield inside a try block whose handlers do not
\* let a GeneratorExit thrown there pass: each reports it as a failure.
ExitSwallowedBy(rs) ==
    {k \in rs.live..Len(rs.chain) :
        /\ (k = 0 \/ rs.chain[k].kind # "group")
        /\ except_clause("GeneratorExit") = "log"}

RECURSIVE ExitReports(_, _)
ExitReports(rs, k) ==
    IF k > Len(rs.chain) THEN <<>>
    ELSE (IF k \in ExitSwallowedBy(rs)
          THEN <<Report(k, rs.out[Len(rs.out)].e)>> ELSE <<>>) \o ExitReports(rs, k + 1)

\* (variant of close: the generators run on to their next yield before they end)
close_resuming ==
    /\ run.status = "active"
    /\ run' = [Pulled(run, _progbar) EXCEPT !.status = "closed"]
    /\ err' = ""
    /\ ret' = NoRet
    /\ UNCHANGED <<other, fate, kind, _sort, _chain, _n, _filters, _progbar>>

\* run.close() by the consumer: GeneratorExit is thrown at the yield where
\* each live generator is suspended; a generator that has not begun just ends
close ==
    /\ run.status = "active"
    /\ IF ~run.started \/ ExitSwallowedBy(run) = {}
       THEN /\ run' = [Did(run, "close", 0, NoItem.e, 0) EXCEPT !.status = "closed"]
            /\ err' = ""
       ELSE /\ run' = [Did(run, "close", 0, NoItem.e, 0) EXCEPT
                           !.status = "ignored", !.log = @ \o ExitReports(run, 0)]
            /\ err' = "RuntimeError"
    /\ ret' = NoRet
    /\ UNCHANGED <<other, fate, kind, _sort, _chain, _n, _filters, _progbar>>

(* --------------------------------------------------------------- combine *)
\* ID arguments of combine(): None (Accessor.ID) and a callable that reads a
\* field of the Entry it is given
IDArgs == {"None", "site"}
\* func arguments of combine(): the default lambda x: x, and a function that
\* returns a number (a count, say).  Either may raise on data that holds
\* the record badRec (0 for none).
FuncArgs == {[f |-> f, badRec |-> b] : f \in {"identity", "count"}, b \in {0, 1}}

\* Accessor.ID(key): for an Entry the label of its fields (the Entries here
\* have site and year), any other key as it is
ID(key) ==
    IF key.t = "entry" THEN [t |-> "label", r |-> 0, s |-> site(key.r), y |-> year(key.r)]
    ELSE key

\* the ID function in use, and whether it raises for a key
identityRaises(idArg, key) == idArg = "site" /\ key.t # "entry"
identity(idArg, key) == IF idArg = "None" THEN ID(key) ELSE Key(site(key.r), 0)

\* for key, data in iter(self): the run of a fresh __iter__, drained
RECURSIVE Drain(_, _)
Drain(rs, progbar) ==
    IF rs.status # "active" THEN rs
    ELSE CHOOSE end \in {Drain(nxt, progbar) : nxt \in {Pulled(rs, progbar)}} : TRUE

\* (variant of Bucket: the slot of an identity is assigned, not appended to)
Bucket_last(idArg, out, id) ==
    LET Mine(it) == identity(idArg, it.e) = id
        mine == SelectSeq(out, Mine)
    IN  <<mine[Len(mine)].d>>

\* results[ID(key)].append(data): the Structures of one identity, in order
Bucket(idArg, out, id) ==
    LET Mine(it) == identity(idArg, it.e) = id
        mine == SelectSeq(out, Mine)
    IN  [i \in 1..Len(mine) |-> mine[i].d]

\* the list `datas` as a value
ListOf(datas) ==
    Structure("list", Flatten([i \in 1..Len(datas) |-> datas[i].m]), <<>>, datas)

\* flat = pd.concat(datas, copy= False) if len(datas) > 1 else datas[0];
\* on TypeError the list itself
flatRaises(datas) == Len(datas) > 1 /\ pd_concat_exc(datas) \notin {"", "TypeError"}
flat(datas) ==
    IF Len(datas) = 1 THEN datas[1]
    ELSE IF pd_concat_exc(datas) = "" THEN pd_concat(datas)
    ELSE ListOf(datas)

\* func(flat, *args, **kwargs)
funcRaises(func, d) == func.badRec \in SeqToSet(d.m)
funcValue(func, d) == IF func.f = "identity" THEN d ELSE Structure("int", d.m, <<>>, <<>>)

\* results[ID_name] after the loop over the identities: the value of func,
\* or, when func raised, what the slot held before: the list `datas`
finished(func, datas) ==
    IF funcRaises(func, flat(datas)) THEN ListOf(datas) ELSE funcValue(func, flat(datas))

(* the final merge: lines 296-355 *)
\* overlapThreshold = 0.75, as a fraction
overlapThresholdNum == 3
overlapThresholdDen == 4

\* type(data), as far as combine() tells types apart
typeOf(v) ==
    CASE v.tag \in {"frame", "misaligned"} -> "DataFrame"
      [] v.tag = "scalar" -> "float"
      [] OTHER -> v.tag
\* np.isscalar(x) or isinstance(x, (pd.Timedelta, pd.Timestamp, pd.Period))
isScalar(v) == typeOf(v) \in {"float", "int", "str", "Timedelta", "Timestamp", "Period"}

\* the axes a value has, and the labels on them: the files of one endpoint
\* share their columns, and every record brings rows of its own
Axes(v) ==
    CASE typeOf(v) = "DataFrame" -> {"index", "columns"}
      [] typeOf(v) = "Series" -> {"index"}
      [] typeOf(v) = "Panel" -> {"items", "major_axis", "minor_axis"}
      [] OTHER -> {}
labels(attr, v) ==
    IF "axes" \in DOMAIN v THEN v.axes[attr]
    ELSE IF attr = "index" THEN SeqToSet(v.m) ELSE {0}
indexDtype(v) == IF "dtype" \in DOMAIN v THEN v.dtype ELSE "datetime64"

RECURSIVE Intersection(_)
Intersection(sets) ==
    IF Cardinality(sets) = 1 THEN CHOOSE x \in sets : TRUE
    ELSE LET x == CHOOSE y \in sets : TRUE IN x \cap Intersection(sets \ {x})
Max(S) == CHOOSE x \in S : \A y \in S : y <= x

\* percentIndexOverlap(attr, results): the exception it raises ("" if none),
\* and whether its value is >= overlapThreshold
lenExc(attr, v) ==
    IF typeOf(v) = "list" /\ attr = "index" THEN "TypeError"  \* len() of the method list.index
    ELSE IF attr \notin Axes(v) THEN "AttributeError"
    ELSE ""
overlapExc(attr, results) ==
    IF \E id \in DOMAIN results : lenExc(attr, results[id]) # ""
    THEN lenExc(attr, results[CHOOSE id \in DOMAIN results : lenExc(attr, results[id]) # ""])
    ELSE IF Max({Cardinality(labels(attr, results[id])) : id \in DOMAIN results}) = 0
    THEN "ZeroDivisionError"
    ELSE ""
\* (variant of overlapPasses: the quotient is the integer quotient)
overlapPasses_floordiv(attr, results) ==
    LET longest == Max({Cardinality(labels(attr, results[id])) : id \in DOMAIN results})
        mutualColumns == Intersection({labels(attr, results[id]) : id \in DOMAIN results})
    IN  (Cardinality(mutualColumns) \div longest) * overlapThresholdDen >= overlapThresholdNum

overlapPasses(attr, results) ==
    LET longest == Max({Cardinality(labels(attr, results[id])) : id \in DOMAIN results})
        mutualColumns == Intersection({labels(attr, results[id]) : id \in DOMAIN results})
    IN  Cardinality(mutualColumns) * overlapThresholdDen >= overlapThresholdNum * longest

Merged(how, results) == [exc |-> "", how |-> how]
Escapes(exc, results) == [exc |-> exc, how |-> "raised"]

\* (variant of FinalMerge: no case for scalars)
FinalMerge_no_scalars(results) == Merged("mapping", results)

\* (variant of FinalMerge: the type of the first result decides, the sanity
\* check of the types of the others is missing)
FinalMerge_unchecked_types(results) ==
    LET exampleResult == results[CHOOSE id \in DOMAIN results : TRUE]
    IN  IF isScalar(exampleResult) THEN Merged("Series", results)
        ELSE IF typeOf(exampleResult) = "Series"
                /\ \A id \in DOMAIN results : lenExc("index", results[id]) = ""
        THEN Merged("DataFrame", results)
        ELSE Merged("mapping", results)

\* the part of combine() after `if len(results) == 1`, for two results or more
FinalMerge(results) ==
    LET exampleResult == results[CHOOSE id \in DOMAIN results : TRUE]
        sameType == \A id \in DOMAIN results : typeOf(results[id]) = typeOf(exampleResult)
    IN  IF ~sameType THEN Merged("mapping", results)
        ELSE IF isScalar(exampleResult) THEN Merged("Series", results)
        ELSE IF typeOf(exampleResult) \in {"Series", "list"}
        THEN IF overlapExc("index", results) = "AttributeError" THEN Merged("mapping", results)
             ELSE IF overlapExc("index", results) # "" THEN Escapes(overlapExc("index", results), results)
             ELSE IF overlapPasses("index", results) THEN Merged("DataFrame", results)
             ELSE Merged("stacked Series", results)
        ELSE IF typeOf(exampleResult) = "DataFrame"
        THEN IF overlapExc("columns", results) # "" THEN Escapes(overlapExc("columns", results), results)
             ELSE IF ~overlapPasses("columns", results) THEN Merged("mapping", results)
             ELSE IF overlapExc("index", results) # "" THEN Escapes(overlapExc("index", results), results)
             ELSE IF overlapPasses("index", results) THEN Merged("Panel", results)
             ELSE IF \A id \in DOMAIN results : indexDtype(results[id]) = indexDtype(exampleResult)
             THEN IF \E id \in DOMAIN results : results[id].tag = "misaligned"
                  THEN Escapes("ValueError", results)
                  ELSE Merged("stacked DataFrame", results)
             ELSE Merged("mapping", results)
        ELSE IF typeOf(exampleResult) = "Panel"
        THEN IF \E a \in {"items", "major_axis", "minor_axis"} : overlapExc(a, results) # ""
             THEN Escapes("ZeroDivisionError", results)
             ELSE IF \A a \in {"items", "major_axis", "minor_axis"} : overlapPasses(a, results)
             THEN Merged("Panel4D", results)
             ELSE Merged("mapping", results)
        ELSE Merged("mapping", results)

\* (variant of Returned: a mapping whatever the number of identities)
Returned_wrapped(results) ==
    [exc |-> "", how |-> "mapping", map |-> results, val |-> NoItem.d]

\* what combine() returns for the finished results: lines 289-355
Returned(results) ==
    IF Cardinality(DOMAIN results) = 0
    THEN [exc |-> "", how |-> "mapping", map |-> results, val |-> NoItem.d]
    ELSE IF Cardinality(DOMAIN results) = 1
    THEN [exc |-> "", how |-> "value", map |-> <<>>,
          val |-> results[CHOOSE id \in DOMAIN results : TRUE]]
    ELSE [exc |-> FinalMerge(results).exc, how |-> FinalMerge(results).how,
          map |-> IF FinalMerge(results).exc = "" THEN results ELSE <<>>, val |-> NoItem.d]

\* combine(func, ID=idArg) once the loop over iter(self) has left the run rs:
\* the exception that escapes ("" if none), the value returned, the list the
\* progress bar was given
CombinedFrom(rs, entries, func, idArg) ==
    LET ids == {identity(idArg, rs.out[i].e) : i \in 1..Len(rs.out)}
        datas == [id \in ids |-> Bucket(idArg, rs.out, id)]
        results == [id \in ids |-> finished(func, datas[id])]
        failed == {id \in ids : funcRaises(func, flat(datas[id]))}
        Call(at, how, map, val) ==
            [NoRet EXCEPT !.at = at, !.how = how, !.map = map, !.val = val,
                          !.func = func, !.idArg = idArg, !.out = rs.out, !.log = rs.log]
        Raises(at, exc) ==
            [exc |-> exc, progbar |-> entries, ret |-> Call(at, "raised", <<>>, NoItem.d)]
    IN  IF rs.status = "raised" THEN Raises("iter", rs.exc)
        ELSE IF \E i \in 1..Len(rs.out) : identityRaises(idArg, rs.out[i].e)
        THEN Raises("ID", "AttributeError")
        ELSE IF \E id \in ids : flatRaises(datas[id]) THEN Raises("concat", "ValueError")
        ELSE LET r == Returned(results)
             IN  [exc |-> r.exc, progbar |-> entries,
                  ret |-> [Call("merge", r.how, r.map, r.val) EXCEPT !.failed = failed]]

\* (variant of combine: the Record Source is a cursor that the first
\* consumption exhausts)
combine_once ==
    /\ \E entries \in {IF _progbar # <<>> THEN <<>> ELSE endpoint(_sort, _n)} :
       \E rs \in {Drain(NewRun(entries, _chain), entries)} :
       \E func \in FuncArgs, idArg \in IDArgs :
       \E c \in {CombinedFrom(rs, entries, func, idArg)} :
           /\ err' = c.exc
           /\ ret' = [c.ret EXCEPT !.again = ret.how # "unset"]
           /\ _progbar' = IF _progbar # <<>> THEN _progbar ELSE c.progbar
    /\ UNCHANGED <<other, fate, kind, _sort, _chain, _n, _filters, run>>

\* Accessor.combine(func, into, ID, *args, **kwargs): iter(self) is drained
\* first, then func and ID work on what it delivered
combine ==
    /\ IF endpointRaises(_sort)
       THEN /\ err' = "SetupError"
            /\ ret' = [NoRet EXCEPT !.at = "fetch", !.how = "raised",
                                    !.again = ret.how # "unset"]
            /\ UNCHANGED _progbar
       ELSE \E entries \in {endpoint(_sort, _n)} :
            \E rs \in {Drain(NewRun(entries, _chain), entries)} :
            \E func \in FuncArgs, idArg \in IDArgs :
            \E c \in {CombinedFrom(rs, entries, func, idArg)} :
                /\ err' = c.exc
                /\ ret' = [c.ret EXCEPT !.again = ret.how # "unset"]
                /\ _progbar' = c.progbar
    /\ UNCHANGED <<other, fate, kind, _sort, _chain, _n, _filters, run>>

Next ==
    \/ __getattr__
    \/ __getitem__
    \/ __call__
    \/ \E arg \in GroupArgs : group(arg)
    \/ __iter__
    \/ next
    \/ close

Spec == Init /\ [][Next]_vars

\* the pipeline used through combine()
NextCombine ==
    \/ __getattr__
    \/ __getitem__
    \/ __call__
    \/ \E arg \in GroupArgs : group(arg)
    \/ combine

SpecCombine == Init /\ [][NextCombine]_vars

\* the pipeline of group stages used through combine()
NextGrouped ==
    \/ \E arg \in KeyGroupArgs : group(arg)
    \/ combine

SpecGrouped == Init /\ [][NextGrouped]_vars

(* --------------------------------------------- two runs of one pipeline *)
\* Accessor.__iter__ called while the consumer holds a run already: the
\* second generator chain.  self._progbar is assigned again.
__iter__2 ==
    /\ run.status # "none"
    /\ IF endpointRaises(_sort)
       THEN /\ err' = "SetupError"
            /\ UNCHANGED <<_progbar, other>>
       ELSE /\ _progbar' = endpoint(_sort, _n)
            /\ other' = NewRun(endpoint(_sort, _n), _chain)
            /\ err' = ""
    /\ ret' = NoRet
    /\ UNCHANGED <<run, fate, kind, _sort, _chain, _n, _filters>>

\* next(other) by the consumer
next2 ==
    /\ other.status = "active"
    /\ other' = Pulled(other, _progbar)
    /\ err' = other'.exc
    /\ ret' = NoRet
    /\ UNCHANGED <<run, fate, kind, _sort, _chain, _n, _filters, _progbar>>

\* other.close() by the consumer
close2 ==
    /\ other.status = "active"
    /\ IF ~other.started \/ ExitSwallowedBy(other) = {}
       THEN /\ other' = [Did(other, "close", 0, NoItem.e, 0) EXCEPT !.status = "closed"]
            /\ err' = ""
       ELSE /\ other' = [Did(other, "close", 0, NoItem.e, 0) EXCEPT
                             !.status = "ignored", !.log = @ \o ExitReports(other, 0)]
            /\ err' = "RuntimeError"
    /\ ret' = NoRet
    /\ UNCHANGED <<run, fate, kind, _sort, _chain, _n, _filters, _progbar>>

\* the datasets followed with two runs: frames, of which one record at
\* most fails to parse
InitRuns ==
    /\ Init
    /\ kind = "frame"
    /\ \A r \in Recs : fate[r].f \in {"ok", "parseErr"}
    /\ Cardinality({r \in Recs : fate[r].f = "parseErr"}) <= 1

NextRuns ==
    \/ __getattr__
    \/ \E arg \in GroupArgs : group(arg)
    \/ __iter__
    \/ next
    \/ close
    \/ __iter__2
    \/ next2
    \/ close2

SpecRuns == InitRuns /\ [][NextRuns]_vars

(* ------------------------------------------- the final merge on its own *)
\* The finished results the final merge may be given, with their labels
\* written out: label sets 1..n, and one set that shares all but one label
\* with the largest of them.
MaxLabels == 10
LabelSets == {1..n : n \in 0..MaxLabels} \cup {2..(MaxLabels + 1)}
SmallLabelSets == {{}, 1..(MaxLabels \div 2), 1..(MaxLabels - 1), 1..MaxLabels}
Dtypes == {"datetime64", "int64"}

\* a finished result with labels: pd.DataFrame with .index and .columns
Table(rows, cols, dtype) ==
    [tag |-> "frame", m |-> <<>>, ops |-> <<>>, parts |-> <<>>,
     axes |-> [index |-> rows, columns |-> cols], dtype |-> dtype]
Tables(sets) == {Table(rows, cols, dtype) : rows \in sets, cols \in sets, dtype \in Dtypes}

\* results: two identities with any tables, three with tables of few shapes
TableResults == [1..2 -> Tables(LabelSets)] \cup [1..3 -> Tables(SmallLabelSets)]

\* a finished result with labels on one axis: pd.Series with .index
SeriesOf(rows) ==
    [tag |-> "Series", m |-> <<>>, ops |-> <<>>, parts |-> <<>>,
     axes |-> [index |-> rows], dtype |-> "datetime64"]
\* results that are all 1-D: two identities with any labels, three with few
SeriesResults ==
    [1..2 -> {SeriesOf(rows) : rows \in LabelSets}]
        \cup [1..3 -> {SeriesOf(rows) : rows \in SmallLabelSets}]

\* a finished result without labels: a number, a string
Plain(type) == Structure(type, <<>>, <<>>, <<>>)
\* results of any types: a table, a 1-D sequence, scalars of three types
AnyValues ==
    {Table(1..MaxLabels, 1..MaxLabels, "datetime64"), SeriesOf(1..MaxLabels),
     Plain("float"), Plain("int"), Plain("str")}
AnyResults == [1..2 -> AnyValues] \cup [1..3 -> AnyValues]

MergeInputs == TableResults \cup SeriesResults \cup AnyResults

\* combine() has finished the results of every identity
InitMerge ==
    /\ fate = [r \in Recs |-> [f |-> "ok", p |-> 0]]
    /\ kind = "frame"
    /\ _sort = "None"
    /\ _n = 0
    /\ _filters = "all"
    /\ _chain = <<>>
    /\ _progbar = <<>>
    /\ run = NoRun
    /\ other = NoRun
    /\ err = ""
    /\ \E results \in MergeInputs : ret = [NoRet EXCEPT !.at = "results", !.map = results]

\* lines 289-355 applied to them
merge ==
    /\ ret.at = "results"
    /\ \E r \in {Returned(ret.map)} :
        /\ ret' = [ret EXCEPT !.at = "merge", !.how = r.how, !.val = r.val, !.res = r.map]
        /\ err' = r.exc
    /\ UNCHANGED <<other, fate, kind, _sort, _chain, _n, _filters, _progbar, run>>

NextMerge == merge

SpecMerge == InitMerge /\ [][NextMerge]_vars

(* ------------------------------------------------ Accessor.ID on its own *)
\* the fields ID() looks for in key.fields
IDFields == {"unit", "site", "year", "month", "day", "hour"}
\* an iyore.Entry that exposes the fields `fields`
EntryWith(fields) == [t |-> "entry", r |-> 0, s |-> 0, y |-> 0, fields |-> fields]
\* the keys ID() is given: Entries with any of the fields, and keys of a
\* group stage, which are no Entries
IDInputs == {EntryWith(fields) : fields \in SUBSET IDFields} \cup {Key(s, 0) : s \in 0..2}

\* The body of ID() for an Entry: id_elems as a sequence (the value of a
\* field is written as the name of the field), the local variable `month`
\* bound only inside the month branch, "".join(id_elems) or key.path.
ID_label(fields) ==
    LET Has(f) == f \in fields
        e1 == (IF Has("unit") THEN <<"unit">> ELSE <<>>)
        e2 == e1 \o (IF Has("site") THEN <<"site">> ELSE <<>>)
        e3 == e2 \o (IF Has("year") THEN <<"year">> ELSE <<>>)
        e4 == IF Has("month")
              THEN e3 \o (IF Len(e3) > 0 THEN <<" ">> ELSE <<>>) \o <<"month">>
              ELSE e3
        month == IF Has("month") THEN "True" ELSE "unbound"
        e5 == IF Has("day")
              THEN e4 \o (IF month = "True" THEN <<"-">> ELSE <<>>) \o <<"day">>
              ELSE e4
        e6 == IF Has("hour")
              THEN e5 \o (IF Len(e5) > 0 THEN <<" ">> ELSE <<>>) \o <<"hour", ":">>
              ELSE e5
    IN  IF Has("day") /\ month = "unbound"
        THEN [exc |-> "UnboundLocalError", val |-> <<>>]
        ELSE [exc |-> "", val |-> IF Len(e6) > 0 THEN e6 ELSE <<"path">>]

\* a key is about to be given to ID()
InitID ==
    /\ fate = [r \in Recs |-> [f |-> "ok", p |-> 0]]
    /\ kind = "frame"
    /\ _sort = "None"
    /\ _n = 0
    /\ _filters = "all"
    /\ _chain = <<>>
    /\ _progbar = <<>>
    /\ run = NoRun
    /\ other = NoRun
    /\ err = ""
    /\ \E key \in IDInputs : ret = [NoRet EXCEPT !.at = "key", !.key = key]

\* Accessor.ID(key)
ID_call ==
    /\ ret.at = "key"
    /\ IF ret.key.t = "entry"
       THEN \E r \in {ID_label(ret.key.fields)} :
                /\ ret' = [ret EXCEPT !.at = "ID", !.label = r.val]
                /\ err' = r.exc
       ELSE /\ ret' = [ret EXCEPT !.at = "ID", !.label = <<ID(ret.key)>>]
            /\ err' = ""
    /\ UNCHANGED <<other, fate, kind, _sort, _chain, _n, _filters, _progbar, run>>

NextID == ID_call

SpecID == InitID /\ [][NextID]_vars

(* ---------------------------------------------------------------- claims *)
IsPrefix(s, t) == Len(s) <= Len(t) /\ \A i \in 1..Len(s) : s[i] = t[i]
OpsOnly(chain) == \A k \in 1..Len(chain) : chain[k].kind \in OpKinds
GroupStages(chain) == {k \in 1..Len(chain) : chain[k].kind = "group"}

\* the layer at which the record r fails in a chain of n attribute-get,
\* index and call stages: 0 is parse, n + 1 is nowhere
FailsAt(r, n) ==
    IF fate[r].f = "parseErr" THEN 0
    ELSE IF fate[r].f = "opErr" /\ fate[r].p <= n THEN fate[r].p
    ELSE n + 1

\* the pairs and the reports a run over `es` owes for such a chain
OwedPairs(es, n) ==
    LET Passes(r) == FailsAt(r, n) = n + 1
        ok == SelectSeq(es, Passes)
    IN  [i \in 1..Len(ok) |->
            Item(Entry(ok[i]), Structure(kind, <<ok[i]>>, [j \in 1..n |-> j], <<>>))]
OwedReports(es, n) ==
    LET Fails(r) == FailsAt(r, n) <= n
        bad == SelectSeq(es, Fails)
    IN  [i \in 1..Len(bad) |-> Report(FailsAt(bad[i], n), Entry(bad[i]))]

\* C1: with no stages and no failing parse, direct iteration delivers exactly
\* one (Entry, Structure) pair per fetched record, in the order of the fetch:
\* what has been delivered is always the pairs of the first records, and a
\* finished run has delivered all of them.
C1_OnePairPerRecord ==
    (/\ run.status # "none"
     /\ run.chain = <<>>
     /\ \A i \in 1..Len(run.entries) : ~parseRaises(run.entries[i]))
    => /\ Len(run.out) <= Len(run.entries)
       /\ \A i \in 1..Len(run.out) :
            run.out[i] = Item(Entry(run.entries[i]), parse(run.entries[i]))
       /\ run.status = "done" => Len(run.out) = Len(run.entries)
       /\ run.status # "raised"
       /\ run.log = <<>>
C1_Witness ==
    /\ run.status = "done"
    /\ run.chain = <<>>
    /\ \A r \in Recs : ~parseRaises(r)
    /\ Len(run.out) = MaxRecs

\* C2: with F the records whose parse raises, direct iteration (no stages)
\* delivers exactly the pairs of the records not in F in fetch order, reports
\* exactly one failure per record of F, and never raises to the consumer.
C2_ParseFailuresSkipped ==
    (run.status # "none" /\ run.chain = <<>>)
    => LET F == {r \in SeqToSet(run.entries) : parseRaises(r)}
           NotInF(r) == r \notin F
           InF(r) == r \in F
           good == SelectSeq(run.entries, NotInF)
           bad == SelectSeq(run.entries, InF)
       IN  /\ run.status # "raised"
           /\ IsPrefix([i \in 1..Len(run.out) |-> run.out[i].e.r], good)
           /\ IsPrefix(run.log, [i \in 1..Len(bad) |-> Report(0, Entry(bad[i]))])
           /\ run.status = "done"
                => /\ Len(run.out) = Len(run.entries) - Cardinality(F)
                   /\ Len(run.log) = Cardinality(F)
C2_Witness ==
    /\ run.status = "done"
    /\ run.chain = <<>>
    /\ Len(run.entries) = MaxRecs
    /\ Cardinality({r \in Recs : parseRaises(r)}) = 1
    /\ Len(run.out) = MaxRecs - 1
    /\ Len(run.log) = 1

\* C3: in a chain of attribute-get, index and call stages only, a pair whose
\* stage operation raises is reported once, by the first stage at which it
\* fails, and goes no further; all other pairs are delivered in fetch order
\* with every stage applied; the run never raises.
C3_StageFailuresIsolated ==
    (run.status # "none" /\ OpsOnly(run.chain))
    => /\ run.status # "raised"
       /\ IsPrefix(run.out, OwedPairs(run.entries, Len(run.chain)))
       /\ IsPrefix(run.log, OwedReports(run.entries, Len(run.chain)))
       /\ run.status = "done"
            => /\ run.out = OwedPairs(run.entries, Len(run.chain))
               /\ run.log = OwedReports(run.entries, Len(run.chain))
C3_Witness ==
    /\ run.status = "done"
    /\ Len(run.chain) = 2
    /\ OpsOnly(run.chain)
    /\ \E r1, r2 \in Recs :
         /\ fate[r1] = [f |-> "opErr", p |-> 1]
         /\ fate[r2] = [f |-> "opErr", p |-> 2]
         /\ Report(1, Entry(r1)) \in SeqToSet(run.log)
         /\ Report(2, Entry(r2)) \in SeqToSet(run.log)
    /\ Len(run.out) = MaxRecs - 2

\* C4: closing a partially consumed run is no failure and no stage goes on:
\* the close step adds no report, delivers nothing, parses nothing and leaves
\* the run closed.
C4_CloseIsNoFailure ==
    [][(run.status = "active" /\ run.started /\ run'.status \notin {"active", "done", "raised"})
        => /\ run'.status = "closed"
           /\ run'.log = run.log
           /\ run'.out = run.out
           /\ run'.pos = run.pos]_vars
C4_Witness ==
    /\ run.status = "closed"
    /\ run.started
    /\ Len(run.out) >= 1
    /\ Len(run.chain) = 2
    /\ \E k \in 1..2 : run.chain[k].kind \in OpKinds
    \* a group stage holds a pair whose group has not been delivered
    /\ \E k \in GroupStages(run.chain) : run.held[k] # <<>>

\* the pairs the group stage at position k has read and has yielded
StageIn(rs, k) ==
    LET Mine(x) == x.p = k /\ ~groupFuncRaises(rs.chain[k].key, x.it.e)
        xs == SelectSeq(rs.gin, Mine)
    IN  [i \in 1..Len(xs) |-> xs[i].it]
StageOut(rs, k) ==
    LET Mine(x) == x.p = k
        xs == SelectSeq(rs.gout, Mine)
    IN  [i \in 1..Len(xs) |-> xs[i].it]
StageKeys(rs, k) ==
    [i \in 1..Len(StageIn(rs, k)) |-> groupFunc(rs.chain[k].key, StageIn(rs, k)[i].e)]

\* every key value occupies one run of adjacent places
Clustered(keys) ==
    \A i, j \in 1..Len(keys) :
        (i < j /\ keys[i] = keys[j]) => \A m \in i..j : keys[m] = keys[i]
\* the places where a key value occurs first / where a run of equal keys begins
FirstPlaces(keys) == {i \in 1..Len(keys) : \A j \in 1..(i - 1) : keys[j] # keys[i]}
RunStarts(keys) == {i \in 1..Len(keys) : i = 1 \/ keys[i] # keys[i - 1]}
Nth(S, j) == CHOOSE i \in S : Cardinality({x \in S : x < i}) = j - 1
RunEnd(keys, j) ==
    IF j = Cardinality(RunStarts(keys)) THEN Len(keys) ELSE Nth(RunStarts(keys), j + 1) - 1
MembersOf(items) == Flatten([i \in 1..Len(items) |-> items[i].d.m])

\* C6: when the pairs entering a group stage already cluster equal keys (and
\* the Structures are concatenable), the stage yields exactly one pair per
\* distinct key, in order of first occurrence, and its Structure is the
\* concatenation of exactly the Structures of that key in upstream order (the
\* Structure itself when there is only one).
C6_ClusteredKeysOneGroupEach ==
    \A k \in GroupStages(run.chain) :
        LET in == StageIn(run, k)
            keys == StageKeys(run, k)
            o == StageOut(run, k)
        IN  (run.status = "done" /\ kind = "frame" /\ Clustered(keys))
            => /\ Len(o) = Cardinality(FirstPlaces(keys))
               /\ \A j \in 1..Len(o) :
                    LET key == keys[Nth(FirstPlaces(keys), j)]
                        places == {i \in 1..Len(in) : keys[i] = key}
                        same == [n \in 1..Cardinality(places) |-> in[Nth(places, n)]]
                    IN  /\ o[j].e = key
                        /\ o[j].d = IF Len(same) = 1 THEN same[1].d
                                    ELSE Structure("frame", MembersOf(same), same[1].d.ops, <<>>)
C6_Witness ==
    /\ run.status = "done"
    /\ kind = "frame"
    /\ \E k \in GroupStages(run.chain) :
         /\ Clustered(StageKeys(run, k))
         /\ Len(StageIn(run, k)) = MaxRecs
         /\ Len(StageOut(run, k)) = 2
         /\ \E j \in 1..2 : Len(StageOut(run, k)[j].d.m) >= 2

\* C7: a group stage coalesces adjacent equal keys only: the pairs it yields
\* are, one for one and in order, the maximal runs of adjacent equal keys of
\* the pairs it read (so a key that recurs after another key gets a group of
\* its own again), and the members of the groups of a finished run, read in
\* order, are the pairs it read.
C7_AdjacentRunsOnly ==
    \A k \in GroupStages(run.chain) :
        LET in == StageIn(run, k)
            keys == StageKeys(run, k)
            o == StageOut(run, k)
        IN  /\ Len(o) <= Cardinality(RunStarts(keys))
            /\ \A j \in 1..Len(o) :
                 LET from == Nth(RunStarts(keys), j)
                 IN  /\ o[j].e = keys[from]
                     /\ o[j].d.m = MembersOf(SubSeq(in, from, RunEnd(keys, j)))
            /\ run.status = "done"
                 => /\ Len(o) = Cardinality(RunStarts(keys))
                    /\ MembersOf(o) = MembersOf(in)
C7_Witness ==
    /\ run.status = "done"
    /\ \E k \in GroupStages(run.chain) :
         /\ ~Clustered(StageKeys(run, k))
         /\ Len(StageOut(run, k)) = 3
         /\ StageOut(run, k)[1].e = StageOut(run, k)[3].e

\* C8: group(keys) makes the key function the sort function of the pipeline,
\* whatever sort the constructor was given: self._sort is the key of the last
\* group stage, a run is fetched sorted by it, and so every key value reaches
\* that group stage as one run of adjacent pairs.
LastGroup(chain) == CHOOSE k \in GroupStages(chain) : \A j \in GroupStages(chain) : j <= k
RetIds == {identity(ret.idArg, ret.out[i].e) : i \in 1..Len(ret.out)}
\* the finished value of one identity
RetFinished(id) == finished(ret.func, Bucket(ret.idArg, ret.out, id))
\* the last call was combine() and it got as far as finishing every identity
ResultsFinished == ret.how # "unset" /\ ret.at = "merge"

\* C5 (as the specification states it): only a setup error escapes to the
\* caller of combine(); every other fault of the run is reported and
\* swallowed, and combine() still returns a result.
C5_OnlySetupErrorsEscape == ret.how = "raised" => err = "SetupError"

\* C9: when the run delivered pairs of exactly one identity, combine()
\* returns the finished value of that identity itself (where the finisher
\* worked: its value on the concatenation of all the pairs delivered), not a
\* mapping; when the run delivered nothing, it returns an empty mapping.
C9_FewIdentitiesUnwrapped ==
    ResultsFinished =>
        LET all == [i \in 1..Len(ret.out) |-> ret.out[i].d]
        IN  /\ Cardinality(RetIds) = 1 =>
                /\ ret.how = "value"
                /\ ~funcRaises(ret.func, flat(all)) => ret.val = funcValue(ret.func, flat(all))
            /\ Cardinality(RetIds) = 0 => ret.how = "mapping" /\ DOMAIN ret.map = {}

\* several pairs of one identity went in, one value came out
C9_Witness ==
    /\ ResultsFinished
    /\ Cardinality(RetIds) = 1
    /\ Len(ret.out) >= 2
    /\ ret.how = "value"
    /\ ret.failed = {}

\* C10: when the run delivered pairs of k >= 2 identities and the finished
\* values are all scalars of one type, combine() returns a 1-D keyed sequence
\* whose keys are exactly the k identities, each with its finished value.
C10_ScalarsToSeries ==
    (/\ ResultsFinished
     /\ Cardinality(RetIds) >= 2
     /\ \A id \in RetIds : isScalar(RetFinished(id))
     /\ \A id1, id2 \in RetIds : typeOf(RetFinished(id1)) = typeOf(RetFinished(id2)))
    => /\ ret.how = "Series"
       /\ DOMAIN ret.map = RetIds
       /\ \A id \in RetIds : ret.map[id] = RetFinished(id)

\* a keyed sequence of two entries or more, one of them finished from several pairs
C10_Witness ==
    /\ ResultsFinished
    /\ ret.how = "Series"
    /\ Cardinality(DOMAIN ret.map) >= 2
    /\ Len(ret.out) > Cardinality(DOMAIN ret.map)

\* C12 (as the specification states it): an identity whose finisher raised
\* is absent from what combine() returns: it is no key of the mapping, and
\* the value returned for a single identity is not its unfinished input.
C12_FailedIdentityAbsent ==
    ResultsFinished =>
        \A id \in RetIds :
            funcRaises(ret.func, flat(Bucket(ret.idArg, ret.out, id))) =>
                /\ ret.how = "value" => ret.val # ListOf(Bucket(ret.idArg, ret.out, id))
                /\ ret.how \notin {"value", "raised"} => id \notin DOMAIN ret.map

\* C12, the part that holds: a finisher failure does not reach the caller,
\* and the identities whose finisher worked keep their finished values
C12_OthersUnaffected ==
    (ResultsFinished /\ ret.how \notin {"value", "raised"}) =>
        /\ err = ""
        /\ \A id \in RetIds :
               ~funcRaises(ret.func, flat(Bucket(ret.idArg, ret.out, id))) =>
                   ret.map[id] = funcValue(ret.func, flat(Bucket(ret.idArg, ret.out, id)))

\* a combine() step that follows a combine() step: the pipeline was
\* consumed and is consumed again
SecondCombine == ret.how # "unset" /\ ret'.how # "unset"
\* what a call returned or raised, whatever the call before it was
Outcome(r) == [r EXCEPT !.again = FALSE]

\* C13 (as the specification states it): a combine() on a pipeline that a
\* combine() has consumed finds nothing to consume and returns an empty
\* mapping.
C13_SecondCombineEmpty ==
    [][SecondCombine => (ret'.how = "mapping" /\ DOMAIN ret'.map = {} /\ ret'.out = <<>>)]_vars

\* C13 as the code has it: every consumption fetches the records again, so a
\* combine() that follows a combine() with the same arguments delivers,
\* reports, returns and raises what the first did.
C13_SecondCombineSame ==
    [][(SecondCombine /\ ret'.func = ret.func /\ ret'.idArg = ret.idArg)
       => (Outcome(ret') = Outcome(ret) /\ err' = err)]_vars

\* a second combine() in a row has returned the results of two pairs or more
C13_Witness ==
    /\ ret.again
    /\ ret.how \notin {"unset", "raised"}
    /\ Len(ret.out) >= 2
    /\ ret.log # <<>>

(* ------------------------------------------------- claims about laziness *)
\* C14 (as the specification states it): once the iteration of a pipeline
\* has started, no builder changes the list of stages.
C14_ChainSealedByUse == [][run.started => _chain' = _chain]_vars

\* the calls of one kind made for the run
WorkOf(evs) == LET Is(w) == w.ev \in evs IN SelectSeq(run.work, Is)
\* the consumer has not pulled from the run yet
NotPulled == run.status # "none" /\ ~run.started
BuilderStep == _chain' # _chain

\* C15 (as the specification states it): when a run has been started and
\* the consumer has not pulled yet, fetching and materializing the records
\* is the only work that has been done.
C15_OnlyFetchBeforeFirstPull ==
    NotPulled => WorkOf({"prepareState", "fetch", "parse", "op"}) = <<Event("fetch", 0, NoItem.e, 0)>>

\* C15 as the code has it: constructing the pipeline and appending stages
\* does no work at all; __iter__ calls prepareState once and then fetches
\* and materializes the records once, and until the consumer's first pull
\* nothing is parsed and no stage operation is applied.
C15_NothingBeforeConsumption ==
    /\ [](/\ run.status = "none" => (run.work = <<>> /\ _progbar = <<>>)
          /\ NotPulled =>
                WorkOf({"prepareState", "fetch", "parse", "op"}) =
                    <<Event("prepareState", 0, NoItem.e, 0), Event("fetch", 0, NoItem.e, 0)>>
          /\ run.status # "none" => Len(WorkOf({"fetch"})) = 1)
    /\ [][BuilderStep => (run' = run /\ _progbar' = _progbar)]_vars

\* stages were appended before and after __iter__, and nothing has been
\* pulled
C15_Witness ==
    /\ NotPulled
    /\ run.status = "active"
    /\ run.chain # <<>>
    /\ Len(_chain) > Len(run.chain)
    /\ run.entries # <<>>

\* C16: in every run the record list is complete before the first parse
\* call (the fetch precedes every parse call, and the records parsed are
\* records of the materialized list, in its order); and when locating the
\* records fails, the error reaches the caller of __iter__ at once and that
\* call starts no run: nothing is parsed and no pair is produced by it.
IterStep == run'.status = "active" /\ ~run'.started /\ run' # run
FailedIterStep == err' = "SetupError" /\ ret' = NoRet /\ _chain' = _chain
UnknownSortField == _sort = "bogus"
ParsedRecords == [i \in 1..Len(WorkOf({"parse"})) |-> WorkOf({"parse"})[i].e.r]
C16_MaterializedBeforeParsing ==
    /\ [](run.status # "none" =>
            /\ \A i \in 1..Len(run.work) :
                   run.work[i].ev = "parse" => \E j \in 1..(i - 1) : run.work[j].ev = "fetch"
            /\ run.started => IsPrefix(ParsedRecords, run.src)
            /\ Len(ParsedRecords) = run.pos - 1)
    /\ [][FailedIterStep => (UnknownSortField /\ run' = run /\ _progbar' = _progbar)]_vars
    /\ [][IterStep => ~UnknownSortField]_vars

\* a run has parsed every record of its list, some after others failed
C16_Witness ==
    /\ run.status = "done"
    /\ Len(ParsedRecords) = MaxRecs
    /\ run.log # <<>>
    /\ run.out # <<>>

\* C17: every run has exactly one prepareState call, made before all its
\* parse calls, and every parse call of the run is handed the State of that
\* call: the i-th parse call finds in it what the i - 1 parse calls before
\* it have written.
C17_OneStatePerRun ==
    run.status # "none" =>
        /\ Len(WorkOf({"prepareState"})) = 1
        /\ run.work[1].ev = "prepareState"
        /\ \A i \in 1..Len(WorkOf({"parse"})) : WorkOf({"parse"})[i].st = i - 1

\* a run whose State has passed through the parse call of every record
C17_Witness ==
    /\ run.status = "done"
    /\ Len(WorkOf({"parse"})) = MaxRecs
    /\ WorkOf({"parse"})[MaxRecs].st = MaxRecs - 1

\* the positions of the attribute-get, index and call stages of a chain
RECURSIVE OpPositions(_, _)
OpPositions(chain, k) ==
    IF k > Len(chain) THEN <<>>
    ELSE (IF chain[k].kind \in OpKinds THEN <<k>> ELSE <<>>) \o OpPositions(chain, k + 1)

\* C18: the stages act in the order in which they were appended.  The
\* Structure of every delivered pair has had the operations of the chain
\* applied first to last (for a chain s1..sN without group the pair of
\* record r carries sN(...s1(parse(r)))); and the operation of a stage is
\* applied to a record only after the record was parsed and the stage
\* before has succeeded on it.
C18_StagesInAppendOrder ==
    run.status # "none" =>
        /\ \A i \in 1..Len(run.out) :
               /\ run.out[i].d.tag # "tuple" => run.out[i].d.ops = OpPositions(run.chain, 1)
               /\ OpsOnly(run.chain) =>
                     run.out[i].d = Structure(kind, <<run.out[i].e.r>>,
                                              [k \in 1..Len(run.chain) |-> k], <<>>)
        /\ OpsOnly(run.chain) =>
              \A i \in 1..Len(run.work) :
                  run.work[i].ev = "op" =>
                      LET k == run.work[i].k
                          e == run.work[i].e
                      IN  /\ \E j \in 1..(i - 1) :
                                 run.work[j] = (IF k = 1 THEN Event("parse", 0, e, run.work[j].st)
                                                ELSE Event("op", k - 1, e, 0))
                          /\ ~parseRaises(e.r)
                          /\ \A q \in 1..(k - 1) : fate[e.r] # [f |-> "opErr", p |-> q]

\* a finished run through two operation stages in which the first stage
\* failed on one record and the second on another
C18_Witness ==
    /\ run.status = "done"
    /\ Len(run.chain) = 2
    /\ OpsOnly(run.chain)
    /\ run.out # <<>>
    /\ \E r1, r2 \in Recs :
         /\ fate[r1] = [f |-> "opErr", p |-> 1]
         /\ fate[r2] = [f |-> "opErr", p |-> 2]
         /\ Event("op", 2, Entry(r2), 0) \in SeqToSet(run.work)
         /\ Event("op", 2, Entry(r1), 0) \notin SeqToSet(run.work)

\* the places of the parse calls in the work of the run
ParsePlaces == {i \in 1..Len(run.work) : run.work[i].ev = "parse"}
\* C19: no stage reads ahead.  Without a group stage, between two parse
\* calls that follow each other the pair of the first record was delivered
\* and the consumer then asked for the next pair, unless that record failed
\* (at parse or at a stage) and was skipped; and no parse call precedes the
\* consumer's first request.  With a group stage, whenever the run rests
\* (a group has been emitted, or the run has ended) the records parsed so
\* far are exactly those of the groups emitted, those skipped as failures
\* on the way, and the one record that ended the last run of equal keys.
C19_NoReadAhead ==
    /\ (run.status # "none" /\ OpsOnly(run.chain)) =>
          \A b \in ParsePlaces :
              /\ \E d \in 1..(b - 1) : run.work[d].ev = "next"
              /\ \A a \in ParsePlaces :
                    (a < b /\ \A m \in (a + 1)..(b - 1) : m \notin ParsePlaces) =>
                        \/ FailsAt(run.work[a].e.r, Len(run.chain)) <= Len(run.chain)
                        \/ \E c, d \in (a + 1)..(b - 1) :
                              /\ c < d
                              /\ run.work[c] = Event("deliver", 0, run.work[a].e, 0)
                              /\ run.work[d].ev = "next"
    /\ (run.status \in {"active", "done", "closed"} /\ GroupStages(run.chain) # {}) =>
          LET g == CHOOSE k \in GroupStages(run.chain) : \A j \in GroupStages(run.chain) : k <= j
              parsed == SeqToSet(ParsedRecords)
              emitted == SeqToSet(MembersOf(StageOut(run, g)))
              skipped == {r \in parsed : FailsAt(r, g - 1) <= g - 1}
              ender == IF run.held[g] # <<>> THEN {run.held[g][1].e.r} ELSE {}
          IN  /\ parsed = emitted \cup skipped \cup ender
              /\ Cardinality(parsed) = Len(ParsedRecords)
              /\ Cardinality(ender) <= 1

\* a group of two records was emitted when the record that ended its run,
\* and no other, had been parsed besides them
C19_Witness ==
    /\ run.status = "active"
    /\ GroupStages(run.chain) = {1}
    /\ Len(run.out) = 1
    /\ Len(run.out[1].d.m) = 2
    /\ run.held[1] # <<>>
    /\ run.held[1][1].e.r \notin SeqToSet(run.out[1].d.m)
    /\ Len(ParsedRecords) = Len(run.out[1].d.m) + 1

\* C20: closing a run ends it where it stands.  The close itself parses
\* nothing, applies no stage operation, delivers no pair and reports nothing,
\* and a closed run never does any of these again: the records not yet
\* pulled stay untouched.
CloseStep == run.status = "active" /\ run'.status \notin {"active", "done", "raised"} /\ run' # run
C20_ClosedRunIsOver ==
    /\ [][CloseStep =>
            /\ run' = [run EXCEPT !.status = "closed",
                                   !.work = Append(@, Event("close", 0, NoItem.e, 0))]
            /\ err' = ""]_vars
    /\ [][run.status = "closed" => (run' = run \/ IterStep)]_vars
    /\ [](run.status = "closed" =>
            /\ run.work[Len(run.work)].ev = "close"
            /\ Len(WorkOf({"close"})) = 1)

\* a run through two operation stages was closed after its first pair, with
\* records left that were never parsed
C20_Witness ==
    /\ run.status = "closed"
    /\ Len(run.chain) = 2
    /\ OpsOnly(run.chain)
    /\ Len(run.out) = 1
    /\ Len(ParsedRecords) < Len(run.src)

(* ------------------------------------------------------ final merge claims *)
\* the final merge has run on the results in ret.map
Merged2 == ret.at = "merge" /\ Cardinality(DOMAIN ret.map) >= 2
AllTables == \A id \in DOMAIN ret.map : ret.map[id].tag = "frame"
\* 4 * |labels common to all results| >= 3 * |labels of the largest result|
SharedLabels(attr) == {x \in 1..(MaxLabels + 1) : \A id \in DOMAIN ret.map : x \in ret.map[id].axes[attr]}
MostLabels(attr) == Max({Cardinality(ret.map[id].axes[attr]) : id \in DOMAIN ret.map})
OverlapAtLeastThreeQuarters(attr) == 4 * Cardinality(SharedLabels(attr)) >= 3 * MostLabels(attr)
OneRowIndexType == \A id1, id2 \in DOMAIN ret.map : ret.map[id1].dtype = ret.map[id2].dtype

\* what C11 says combine() returns for tables
TablesMergedByOverlap ==
    /\ ret.how = "Panel" <=>
           OverlapAtLeastThreeQuarters("columns") /\ OverlapAtLeastThreeQuarters("index")
    /\ ret.how = "stacked DataFrame" <=>
           /\ OverlapAtLeastThreeQuarters("columns")
           /\ ~OverlapAtLeastThreeQuarters("index")
           /\ OneRowIndexType
    /\ ret.how = "mapping" <=>
           \/ ~OverlapAtLeastThreeQuarters("columns")
           \/ ~OverlapAtLeastThreeQuarters("index") /\ ~OneRowIndexType

\* C11 (as the specification states it): for two or more identities whose
\* finished results are all 2-D tables, combine() returns a cube iff column
\* and row overlap are both >= 0.75, one stacked table iff column overlap is
\* >= 0.75, row overlap is below and the row-index types agree, and the raw
\* mapping in every other case.
C11_TablesMergedByOverlap == (Merged2 /\ AllTables) => TablesMergedByOverlap

\* C11 where both overlap fractions are defined: some table has a column and
\* some table has a row
C11_DefinedOverlapsMergedByOverlap ==
    (Merged2 /\ AllTables /\ MostLabels("columns") > 0 /\ MostLabels("index") > 0)
    => TablesMergedByOverlap

\* the example of the specification: 80% of the columns and 90% of the rows
\* shared gives a cube
C11_Witness ==
    /\ Merged2 /\ AllTables
    /\ 10 * Cardinality(SharedLabels("columns")) = 8 * MostLabels("columns")
    /\ 10 * Cardinality(SharedLabels("index")) = 9 * MostLabels("index")
    /\ MostLabels("index") > 0 /\ MostLabels("columns") > 0
    /\ ret.how = "Panel"

\* every finished result is a 1-D sequence
AllSeries == \A id \in DOMAIN ret.map : ret.map[id].tag = "Series"

\* C21: the overlap fraction of an axis is the number of labels common to
\* all results over the label count of the largest result, and the gate is
\* inclusive: wherever the fraction exists (the largest result has a label)
\* the merge happens exactly when 4 * |common labels| >= 3 * |most labels|.
\* 1-D sequences become a table exactly then and a stacked sequence
\* otherwise; tables whose columns fail the gate stay a mapping, and tables
\* whose columns pass become a cube exactly when the rows pass too.
C21_OverlapGateInclusive ==
    Merged2 =>
        /\ (AllSeries /\ MostLabels("index") > 0) =>
              /\ ret.how = "DataFrame" <=> OverlapAtLeastThreeQuarters("index")
              /\ ret.how = "stacked Series" <=> ~OverlapAtLeastThreeQuarters("index")
        /\ (AllTables /\ MostLabels("columns") > 0 /\ ~OverlapAtLeastThreeQuarters("columns")) =>
              ret.how = "mapping"
        /\ (AllTables /\ MostLabels("columns") > 0 /\ MostLabels("index") > 0
                /\ OverlapAtLeastThreeQuarters("columns")) =>
              (ret.how = "Panel" <=> OverlapAtLeastThreeQuarters("index"))

\* the tie: three labels of four are shared, and the sequences were merged
\* into a table
C21_Witness ==
    /\ Merged2 /\ AllSeries
    /\ Cardinality(SharedLabels("index")) = 3
    /\ MostLabels("index") = 4
    /\ ret.how = "DataFrame"

MixedTypes == \E id1, id2 \in DOMAIN ret.map : typeOf(ret.map[id1]) # typeOf(ret.map[id2])

\* C23: when the finished results of two or more identities are not all of
\* one type, combine() merges nothing: it raises nothing and returns the
\* mapping of the results itself, with exactly those identities and each
\* with its own finished value.
C23_MixedTypesUnmerged ==
    (Merged2 /\ MixedTypes) =>
        /\ err = ""
        /\ ret.how = "mapping"
        /\ DOMAIN ret.res = DOMAIN ret.map
        /\ \A id \in DOMAIN ret.map : ret.res[id] = ret.map[id]

\* three identities, of which two have results of one type (scalars) and
\* the third a table
C23_Witness ==
    /\ Merged2 /\ MixedTypes
    /\ Cardinality(DOMAIN ret.map) = 3
    /\ \E id1, id2, id3 \in DOMAIN ret.map :
         /\ id1 # id2
         /\ isScalar(ret.map[id1])
         /\ ret.map[id1] = ret.map[id2]
         /\ typeOf(ret.map[id3]) = "DataFrame"
    /\ ret.how = "mapping"

(* ------------------------------------------------- group and builder claims *)
\* what C24 says the group stage emits for the run of pairs `members`
RunCombined(members) ==
    LET datas == [i \in 1..Len(members) |-> members[i].d]
    IN  IF Len(members) = 1 THEN datas[1]
        ELSE IF \A i \in 1..Len(datas) : datas[i].tag = "frame"
        THEN Structure("frame", MembersOf(members), datas[1].ops, <<>>)
        ELSE Structure("tuple", MembersOf(members), <<>>, datas)
\* every group the stages have emitted is the one C24 describes
GroupsAsCombined ==
    \A k \in GroupStages(run.chain) :
        \A j \in 1..Len(StageOut(run, k)) :
            LET keys == StageKeys(run, k)
                from == Nth(RunStarts(keys), j)
            IN  StageOut(run, k)[j].d = RunCombined(SubSeq(StageIn(run, k), from, RunEnd(keys, j)))

\* C24 (as the specification states it): a run of one pair is emitted as
\* that pair's Structure, a run of two or more as their concatenation in
\* upstream order, and when the Structures cannot be concatenated the tuple
\* of the Structures is emitted instead: no run ends with an error of the
\* concatenation and no group is left out.
C24_ConcatOrTuple ==
    /\ GroupsAsCombined
    /\ run.status = "raised" => run.exc # "ValueError"
    /\ run.status = "done" =>
           \A k \in GroupStages(run.chain) :
               Len(StageOut(run, k)) = Cardinality(RunStarts(StageKeys(run, k)))

\* C24, the part that holds: whatever has been emitted is as C24 describes
\* it, and Structures that are no pandas objects are surfaced as a tuple
C24_NonPandasSurfaced ==
    /\ GroupsAsCombined
    /\ kind # "misaligned" => ~(run.status = "raised" /\ run.exc = "ValueError")

\* a group stage has emitted a tuple of two Structures
C24_TupleWitness ==
    /\ run.status = "done"
    /\ \E i \in 1..Len(run.out) : run.out[i].d.tag = "tuple" /\ Len(run.out[i].d.parts) = 2
    /\ \E i \in 1..Len(run.out) : run.out[i].d.tag = "scalar"

\* C26: group() checks its arguments before it changes anything: a group()
\* that raises (no key, several keys not all strings, one key neither a
\* string nor callable) leaves the list of stages and the sort function as
\* they were.  Every builder call that succeeds appends exactly one stage
\* at the end and leaves the stages before it in place; only a group()
\* that succeeds changes the sort function, and no step changes the
\* filters or the limit.
C26_BuildersAppendOnly ==
    [][/\ err' = "ArgumentError" => (_chain' = _chain /\ _sort' = _sort)
       /\ _chain' # _chain =>
             /\ err' = ""
             /\ Len(_chain') = Len(_chain) + 1
             /\ SubSeq(_chain', 1, Len(_chain)) = _chain
             /\ _chain'[Len(_chain')].kind \in OpKinds \cup {"group"}
       /\ _sort' # _sort => _chain' = Append(_chain, Stage("group", _sort'))
       /\ _filters' = _filters
       /\ _n' = _n]_vars

\* a group() has just raised on a pipeline that has a group stage already,
\* and the sort function is still the key of that stage
C26_Witness ==
    /\ err = "ArgumentError"
    /\ Len(_chain) = 1
    /\ _chain[1].kind = "group"
    /\ _sort = _chain[1].key
    /\ run.status = "none"

(* ------------------------------------------------------ identity claims *)
\* the label C25 describes for an Entry with the fields F: the fields
\* present, in the order unit, site, year, month, day, hour; a blank before
\* the month and before the hour when something precedes them, a dash
\* between month and day, a colon after the hour; the path when F has none
LabelOf(F) ==
    LET Part(f) == IF f \in F THEN <<f>> ELSE <<>>
        Blank(before) == IF F \cap before # {} THEN <<" ">> ELSE <<>>
        Dash == IF {"month", "day"} \subseteq F THEN <<"-">> ELSE <<>>
    IN  IF F \cap IDFields = {} THEN <<"path">>
        ELSE Part("unit") \o Part("site") \o Part("year")
                \o (IF "month" \in F THEN Blank({"unit", "site", "year"}) ELSE <<>>)
                \o Part("month") \o Dash \o Part("day")
                \o (IF "hour" \in F THEN Blank(IDFields \ {"hour"}) \o <<"hour", ":">> ELSE <<>>)
IDCalledOnEntry == ret.at = "ID" /\ ret.key.t = "entry"

\* C25 (as the specification states it): the default identity function is
\* total over Records: for every subset of the six fields an Entry exposes
\* it raises nothing and returns the label of the present fields, and the
\* path exactly when none of the fields is present.
C25_DefaultIdentityTotal ==
    IDCalledOnEntry =>
        /\ err = ""
        /\ ret.label = LabelOf(ret.key.fields)
        /\ ret.label = <<"path">> <=> ret.key.fields = {}

\* C25, the part that holds: for an Entry without a day field, or with day
\* and month, the label is the one described
C25_LabelUnlessDayWithoutMonth ==
    (IDCalledOnEntry /\ ("day" \in ret.key.fields => "month" \in ret.key.fields)) =>
        /\ err = ""
        /\ ret.label = LabelOf(ret.key.fields)
        /\ ret.label = <<"path">> <=> ret.key.fields = {}

\* combine() with the default identity function has finished the results of
\* a pipeline that ends in a group stage
GroupsCombined ==
    /\ ret.at = "merge"
    /\ ret.idArg = "None"
    /\ _chain # <<>>
    /\ _chain[Len(_chain)].kind = "group"
\* the key values of the groups delivered, and the records of the groups of
\* one key value in the order of their emission
KeysEmitted == {ret.out[i].e : i \in 1..Len(ret.out)}
RECURSIVE MembersFrom(_, _)
MembersFrom(key, i) ==
    IF i > Len(ret.out) THEN <<>>
    ELSE (IF ret.out[i].e = key THEN ret.out[i].d.m ELSE <<>>) \o MembersFrom(key, i + 1)
\* what combine() returned for a key value
ValueOf(key) == IF ret.how = "value" THEN ret.val ELSE ret.map[key]

\* C28: after a group stage combine() with the default identity function
\* buckets every emitted group under its key as it is.  What it returns has
\* exactly one entry per distinct key value (the value itself when there is
\* one key value only); the entry of a key holds the data of exactly the
\* groups emitted with that key, in emission order, also when the key came
\* in several non-adjacent groups; and for concatenable Structures and the
\* default finisher the entry is their one concatenation.
C28_GroupsBucketedByKey ==
    GroupsCombined =>
        /\ \A i \in 1..Len(ret.out) : ret.out[i].e.t = "key"
        /\ ret.how = "value" <=> Cardinality(KeysEmitted) = 1
        /\ ret.how \notin {"value", "raised"} => DOMAIN ret.map = KeysEmitted
        /\ ret.how # "raised" =>
              \A key \in KeysEmitted :
                  /\ ValueOf(key).m = MembersFrom(key, 1)
                  /\ (kind = "frame" /\ ret.func.f = "identity" /\ key \notin ret.failed) =>
                        ValueOf(key) = Structure("frame", MembersFrom(key, 1), <<>>, <<>>)

\* three groups were emitted, the first and the third with one key value,
\* and the result has two entries
C28_Witness ==
    /\ GroupsCombined
    /\ Len(ret.out) = 3
    /\ ret.out[1].e = ret.out[3].e
    /\ ret.out[1].e # ret.out[2].e
    /\ ret.how \notin {"value", "raised"}
    /\ Cardinality(DOMAIN ret.map) = 2
    /\ Len(ret.map[ret.out[1].e].m) = 2

(* ------------------------------------------------------ two-run claims *)
\* the run that rs would be by now, or at its end, if it were the only run
\* of the pipeline as the pipeline was at its __iter__
Alone(rs) == Drain(NewRun(rs.entries, rs.chain), rs.entries)
\* rs has delivered what it would have delivered alone
AsAlone(rs) ==
    \E alone \in {Alone(rs)} :
        /\ IsPrefix(rs.out, alone.out)
        /\ rs.status = "done" =>
              (rs.out = alone.out /\ rs.log = alone.log /\ alone.status = "done")
        /\ rs.status = "raised" => (rs.out = alone.out /\ alone.status = "raised")
TwoRuns == run.status # "none" /\ other.status # "none"

\* C27 (as the specification states it): two runs started from one pipeline
\* and pulled in any interleaving are independent: each walks the record
\* list of its own __iter__ and delivers the pairs it would deliver if it
\* were the only run.
C27_RunsIndependent ==
    TwoRuns =>
        /\ run.started => run.src = run.entries
        /\ other.started => other.src = other.entries
        /\ AsAlone(run)
        /\ AsAlone(other)

\* C27, the part that holds: a run that walks the list of its own __iter__
\* (it was first pulled before any later __iter__, or the later list is the
\* same list) delivers what it would deliver alone, whatever the other run
\* does in between; and a step of one run (a pull, its end, its close)
\* leaves the other run as it was.
C27_IndependentOnOwnList ==
    /\ [](TwoRuns =>
            /\ (run.started /\ run.src = run.entries) => AsAlone(run)
            /\ (other.started /\ other.src = other.entries) => AsAlone(other))
    /\ [][(TwoRuns /\ run' # run /\ run'.entries = run.entries) => other' = other]_vars
    /\ [][(TwoRuns /\ other' # other /\ other.status # "none") => run' = run]_vars

\* two runs were pulled in turn and both have come to their end with all
\* records delivered, the first after the second
C27_InterleavedWitness ==
    /\ run.status = "done"
    /\ other.status = "done"
    /\ Len(run.out) = MaxRecs
    /\ Len(other.out) = MaxRecs
    /\ run.work[Len(run.work) - 1].ev = "deliver"

====
